---- MODULE Spec2Model ----
(***************************************************************************)
(* A model of the two components of the energy-analysis dashboard:         *)
(*                                                                         *)
(*   - components/data_upload.py: validate_file_format and                  *)
(*     render_data_upload, over an uploaded file that is a seekable stream  *)
(*     with a name;                                                         *)
(*   - tariffs/rp4_tariffs.py: the TARIFF_DATA catalog and get_tariff_data. *)
(*                                                                         *)
(* Text is modelled as a sequence of one-character strings where the code   *)
(* takes it apart (file names, extensions) and as a sequence of tokens      *)
(* where the code only builds it (messages).  pandas is not part of the     *)
(* repository: what a parser makes of the uploaded bytes is an input of the *)
(* model (the record `file`), fixed when the file is uploaded, so that two  *)
(* parses of the same bytes by the same parser agree.                       *)
(***************************************************************************)
EXTENDS Integers, Sequences, FiniteSets, TLC

\* ------------------------------------------------------------------ bounds
\* Largest number of columns of a parsed table.
MaxCols == 2
\* Largest number of data rows of a parsed table.
MaxRows == 1
\* Largest size, in bytes, of an uploaded file.
MaxSize == 1

VARIABLES
    pc,          \* "start", "validate", "validated", "done"
    caller,      \* who called validate_file_format: "render", "direct", "none"
    name,        \* uploaded_file.name, a sequence of characters
    file,        \* what the parsers make of the uploaded bytes
    pos,         \* the read position of the uploaded stream
    posBefore,   \* the read position when validate_file_format was entered
    streamLog,   \* the stream operations validate_file_format performed
    validation,  \* validation_result: [valid, errors]
    vParser,     \* the parser validate_file_format used: "csv", "excel", "none"
    raised,      \* an exception left validate_file_format
    attempts,    \* the parse attempts of render_data_upload: <<[parser, outcome]>>
    msgs,        \* what render_data_upload showed: <<[level, text]>>
    ret,         \* what render_data_upload returned: [kind, df]
    catalog,     \* what get_tariff_data returned to the client, <<>> before the call
    loaded,      \* the client has called get_tariff_data
    path,        \* the keys the client has subscripted the catalog with
    value,       \* the value reached by subscripting the catalog along path
    keyError     \* the last subscript raised KeyError / IndexError

uploadVars == <<pc, caller, name, file, pos, posBefore, streamLog, validation,
                vParser, raised, attempts, msgs, ret>>
tariffVars == <<catalog, loaded, path, value, keyError>>
vars == <<pc, caller, name, file, pos, posBefore, streamLog, validation,
          vParser, raised, attempts, msgs, ret,
          catalog, loaded, path, value, keyError>>

\* ------------------------------------------------------------ file names
\* str.lower() on the characters that occur in the modelled file names.
Lower(c) ==
    CASE c = "C" -> "c"
      [] c = "S" -> "s"
      [] c = "V" -> "v"
      [] c = "X" -> "x"
      [] c = "L" -> "l"
      [] OTHER -> c

LowerStr(s) == [i \in 1..Len(s) |-> Lower(s[i])]

\* str.rfind for one character, 1-based; 0 when the character is absent.
RFind(s, ch) ==
    LET hits == {i \in 1..Len(s) : s[i] = ch}
    IN IF hits = {} THEN 0 ELSE CHOOSE i \in hits : \A j \in hits : j <= i

\* os.path.splitext(p)[1]: the text from the last dot on, unless that dot
\* comes before the last separator or only dots precede it in the base name.
SplitExt(p) ==
    LET sepIndex == RFind(p, "/")
        dotIndex == RFind(p, ".")
    IN IF /\ dotIndex > sepIndex
          /\ \E k \in (sepIndex + 1)..(dotIndex - 1) : p[k] # "."
       THEN SubSeq(p, dotIndex, Len(p))
       ELSE <<>>

\* file_extension = os.path.splitext(uploaded_file.name)[1].lower()
file_extension(n) == LowerStr(SplitExt(n))

\* str.endswith
EndsWith(s, suffix) ==
    /\ Len(s) >= Len(suffix)
    /\ SubSeq(s, Len(s) - Len(suffix) + 1, Len(s)) = suffix

DotCsv == <<".", "c", "s", "v">>
DotXlsx == <<".", "x", "l", "s", "x">>
DotXls == <<".", "x", "l", "s">>

\* A validator that also lets plain-text files through.
allowed_extensions_with_txt == {DotCsv, DotXlsx, DotXls, <<".", "t", "x", "t">>}

\* allowed_extensions = ['.csv', '.xlsx', '.xls']
allowed_extensions == {DotCsv, DotXlsx, DotXls}

\* The names st.file_uploader(type=['csv', 'xlsx', 'xls']) lets through: the
\* widget compares the extension without regard to case.
UploaderNames ==
    { <<"a", ".", "c", "s", "v">>,
      <<"A", ".", "C", "S", "V">>,
      <<"a", ".", "b", ".", "c", "s", "v">>,
      <<"a", ".", "x", "l", "s", "x">>,
      <<"a", ".", "X", "L", "S">> }

\* The names a direct caller of validate_file_format may pass.
DirectNames ==
    UploaderNames \cup
    { <<"a", ".", "t", "x", "t">>,
      <<"c", "s", "v">>,
      <<".", "c", "s", "v">>,
      <<"a", ".", "c", "s", "v", ".", "b">>,
      <<"a", ".">> }

\* ------------------------------------------------------- parsed tables
\* The inferred type of a column, as df.select_dtypes sees it.
Dtypes == {"number", "object"}

\* A column of the uploaded sheet: whether its header cell is blank, and the
\* type pandas infers for its values.
ColKinds == [blank : BOOLEAN, dtype : Dtypes]

\* The name pandas gives column i (1-based here, 0-based in pandas): a blank
\* header cell becomes "Unnamed: <i-1>".
ColumnName(i, blank) ==
    IF blank THEN <<"Unnamed: ", i - 1>> ELSE <<"col", i>>

MkColumns(kinds) ==
    [i \in 1..Len(kinds) |->
        [name |-> ColumnName(i, kinds[i].blank), dtype |-> kinds[i].dtype]]

KindSeqs == UNION {[1..n -> ColKinds] : n \in 0..MaxCols}

\* The DataFrames a parser can return: a table without columns has no rows,
\* and the columns of a table without rows are of type object.
Tables ==
    {t \in {[nrows |-> r, columns |-> MkColumns(k)] :
                r \in 0..MaxRows, k \in KindSeqs} :
        /\ Len(t.columns) = 0 => t.nrows = 0
        /\ t.nrows = 0 => \A i \in 1..Len(t.columns) : t.columns[i].dtype = "object"}

\* The DataFrame of an empty sheet; also the df of a file record whose
\* parser fails.
NoTable == [nrows |-> 0, columns |-> <<>>]

\* The columns of t over no data rows.
HeaderOnly(t) ==
    [nrows |-> 0,
     columns |-> [i \in 1..Len(t.columns) |->
                     [name |-> t.columns[i].name, dtype |-> "object"]]]

\* pd.read_csv returns at least one column or raises EmptyDataError.
CsvTables == {t \in Tables : Len(t.columns) >= 1}

\* --------------------------------------------------------- exceptions
\* The classes of an exception, up to Exception.
Bases(e) ==
    CASE e = "EmptyDataError" -> {"EmptyDataError", "ValueError", "Exception"}
      [] e = "ParserError" -> {"ParserError", "ValueError", "Exception"}
      [] e = "UnicodeDecodeError" ->
            {"UnicodeDecodeError", "UnicodeError", "ValueError", "Exception"}
      [] e = "ValueError" -> {"ValueError", "Exception"}
      [] e = "BadZipFile" -> {"BadZipFile", "Exception"}
      [] OTHER -> {}

\* Whether `except cls` catches e.
IsInstance(e, cls) == cls \in Bases(e)

ExcelErrors == {"ValueError", "BadZipFile"}

\* ------------------------------------------------------ uploaded files
\* pd.read_excel rejects the bytes.
ExcelFails == {[excel |-> e, sheet |-> NoTable] : e \in ExcelErrors}

\* What pd.read_excel makes of bytes that the CSV parser (in either
\* encoding) reads as table t.  Ordinarily it rejects them; bytes built to be
\* a workbook as well are read as a sheet, here one holding the same table,
\* its header alone, or nothing.
ExcelOfText(t) ==
    ExcelFails
    \cup {[excel |-> "ok", sheet |-> sh] : sh \in {t, HeaderOnly(t), NoTable}}

\* What pd.read_excel makes of bytes the CSV parser rejects as malformed or
\* undecodable: an error, or any sheet when the bytes are a workbook.
ExcelOfBinary ==
    ExcelFails \cup {[excel |-> "ok", sheet |-> sh] : sh \in Tables}

MkFile(s, c, l, x, t) ==
    [size |-> s, csv |-> c, latin1 |-> l, excel |-> x.excel, table |-> t,
     sheet |-> x.sheet]

\* The empty upload: no bytes, so no parser accepts it.
EmptyFile ==
    MkFile(0, "EmptyDataError", "EmptyDataError",
           [excel |-> "ValueError", sheet |-> NoTable], NoTable)

\* The uploaded files: size is the number of bytes; csv, latin1 and excel
\* are what pd.read_csv(f), pd.read_csv(f, encoding='latin-1') and
\* pd.read_excel(f) do with them ("ok" or the exception raised); table is
\* the DataFrame of the CSV parser and sheet that of the spreadsheet parser.
\* Bytes that decode as UTF-8 decode as latin-1 too, with the same structure;
\* bytes without anything to parse (EmptyDataError) are no workbook.
Files ==
    {EmptyFile}
    \cup UNION {{MkFile(s, "ok", "ok", x, t) :
                    s \in 1..MaxSize, x \in ExcelOfText(t)} : t \in CsvTables}
    \cup {MkFile(s, "EmptyDataError", "EmptyDataError", x, NoTable) :
            s \in 1..MaxSize, x \in ExcelFails}
    \cup {MkFile(s, "ParserError", "ParserError", x, NoTable) :
            s \in 1..MaxSize, x \in ExcelOfBinary}
    \cup UNION {{MkFile(s, "UnicodeDecodeError", "ok", x, t) :
                    s \in 1..MaxSize, x \in ExcelOfText(t)} : t \in CsvTables}
    \cup {MkFile(s, "UnicodeDecodeError", "ParserError", x, NoTable) :
            s \in 1..MaxSize, x \in ExcelOfBinary}

\* pd.read_csv(uploaded_file)
read_csv(f) == [outcome |-> f.csv, df |-> f.table]
\* pd.read_csv(uploaded_file, encoding='latin-1')
read_csv_latin1(f) == [outcome |-> f.latin1, df |-> f.table]
\* pd.read_excel(uploaded_file) and pd.read_excel(uploaded_file, sheet_name=0):
\* sheet_name defaults to 0, the two calls read the same sheet.
read_excel(f) == [outcome |-> f.excel, df |-> f.sheet]

\* len(df.select_dtypes(include=['number']).columns)
NumericCount(df) ==
    Len(SelectSeq(df.columns, LAMBDA c : c.dtype = "number"))

\* str(col).startswith('Unnamed')
StartsWithUnnamed(col) == col.name[1] = "Unnamed: "

\* ------------------------------------------------ validate_file_format
\* validation_result['valid'] = False; validation_result['errors'].append(m)
Fail(result, m) == [valid |-> FALSE, errors |-> Append(result.errors, m)]

\* validation_result = {'valid': True, 'errors': []}
FreshResult == [valid |-> TRUE, errors |-> <<>>]

\* Structure checks that stop at the first failed check.
StructureChecksFirstOnly(df) ==
    IF df.nrows = 0 THEN Fail(FreshResult, <<"File is empty">>)
    ELSE IF Len(df.columns) = 0 THEN Fail(FreshResult, <<"File has no columns">>)
    ELSE IF NumericCount(df) < 1
         THEN Fail(FreshResult,
                   <<"File must have at least 1 numeric column for analysis">>)
         ELSE FreshResult

\* The three checks on the parsed table, each run whatever the others found.
StructureChecks(df) ==
    LET r1 == IF df.nrows = 0
              THEN Fail(FreshResult, <<"File is empty">>) ELSE FreshResult
        r2 == IF Len(df.columns) = 0
              THEN Fail(r1, <<"File has no columns">>) ELSE r1
        r3 == IF NumericCount(df) < 1
              THEN Fail(r2, <<"File must have at least 1 numeric column for analysis">>)
              ELSE r2
    IN r3

\* A catch-all narrowed to pandas' parser errors.
OuterExceptNarrowed == "ParserError"

\* The class the handler around the whole parse catches: except Exception.
OuterExcept == "Exception"

\* How a call of validate_file_format ends: the exit taken, the result
\* returned, the stream position left, the stream operations performed, the
\* parser used, and whether an exception left the function instead.
Outcome(exit, result, p, log, parser, exc) ==
    [exit |-> exit, result |-> result, pos |-> p, log |-> log,
     parser |-> parser, raised |-> exc]

\* validate_file_format(uploaded_file), for a file named n with content f
\* whose stream is at position p0; stop is where a parser that reads the
\* stream leaves its position.
validate_file_format(n, f, p0, stop) ==
    LET ext == file_extension(n)
        started == <<"seek(0)", "read">>
        \* except Exception as e: ... uploaded_file.seek(0)
        outer(e, parser) ==
            IF IsInstance(e, OuterExcept)
            THEN Outcome("outer", Fail(FreshResult, <<"Error reading file: ", e>>),
                         0, started \o <<"seek(0)">>, parser, FALSE)
            ELSE Outcome("outer", FreshResult, stop, started, parser, TRUE)
        checked(df, parser) ==
            Outcome("checked", StructureChecks(df), 0, started \o <<"seek(0)">>,
                    parser, FALSE)
    IN
    IF ext \notin allowed_extensions
    THEN Outcome("unsupported",
                 Fail(FreshResult, <<"Unsupported file format: ">> \o ext),
                 p0, <<>>, "none", FALSE)
    ELSE IF ext = DotCsv
    THEN LET r == read_csv(f) IN
         IF r.outcome = "ok" THEN checked(r.df, "csv")
         ELSE IF IsInstance(r.outcome, "EmptyDataError")
         THEN Outcome("csv_empty", Fail(FreshResult, <<"CSV file is empty">>),
                      stop, started, "csv", FALSE)
         ELSE IF IsInstance(r.outcome, "ParserError")
         THEN Outcome("csv_parser",
                      Fail(FreshResult, <<"CSV file has parsing errors">>),
                      stop, started, "csv", FALSE)
         ELSE outer(r.outcome, "csv")
    ELSE LET r == read_excel(f) IN
         IF r.outcome = "ok" THEN checked(r.df, "excel")
         ELSE IF IsInstance(r.outcome, "Exception")
         THEN Outcome("excel_error",
                      Fail(FreshResult, <<"Excel file error: ", r.outcome>>),
                      stop, started, "excel", FALSE)
         ELSE outer(r.outcome, "excel")

\* Where a parser may leave the stream it read from position 0: anywhere
\* up to the end of the file.
Stops(f) == 0..f.size

\* -------------------------------------------------- render_data_upload
Error(text) == [level |-> "error", text |-> text]
Warning(text) == [level |-> "warning", text |-> text]
Info(text) == [level |-> "info", text |-> text]
Success(text) == [level |-> "success", text |-> text]
Metric(text) == [level |-> "metric", text |-> text]

Pending == [kind |-> "pending", df |-> NoTable]
None == [kind |-> "None", df |-> NoTable]
Returned(df) == [kind |-> "df", df |-> df]

\* st.warning after the latin-1 read.
Latin1Text ==
    <<"File read with latin-1 encoding. Some characters might appear differently.">>

\* st.warning when every column name starts with 'Unnamed'.
AllUnnamedText ==
    <<"All columns appear to be unnamed. Please ensure your file has proper column headers.">>

Attempt(parser, r) == [parser |-> parser, outcome |-> r.outcome]

\* An emptiness test that looks at the columns alone.
DfEmptyColumnsOnly(df) == Len(df.columns) = 0

\* df.empty: some axis of the DataFrame has length 0.
DfEmpty(df) == df.nrows = 0 \/ Len(df.columns) = 0

\* The lines of render_data_upload that read the file: the DataFrame read
\* (ok), or the messages shown before returning None.  Every exception of
\* the parsers derives from Exception, so the handlers `except Exception`
\* catch whatever the handlers before them let pass, and nothing reaches the
\* handler around the whole read (lines 289-298).
RenderRead(n, f) ==
    LET read(ok, df, shown, tried) ==
            [ok |-> ok, df |-> df, msgs |-> shown, attempts |-> tried]
    IN
    IF EndsWith(n, DotCsv)
    THEN LET r == read_csv(f)
             a1 == <<Attempt("csv", r)>>
         IN
         IF r.outcome = "ok" THEN read(TRUE, r.df, <<>>, a1)
         ELSE IF IsInstance(r.outcome, "EmptyDataError")
         THEN read(FALSE, NoTable,
                   <<Error(<<"The CSV file is empty or has no data rows.">>)>>, a1)
         ELSE IF IsInstance(r.outcome, "ParserError")
         THEN read(FALSE, NoTable,
                   <<Error(<<"Error parsing CSV file: ", r.outcome>>),
                     Info(<<"Try saving your file with UTF-8 encoding or check for formatting issues.">>)>>,
                   a1)
         ELSE \* except Exception as e: try with different encoding
              LET r2 == read_csv_latin1(f)
                  a2 == Append(a1, Attempt("csv", r2))
              IN
              IF r2.outcome = "ok"
              THEN read(TRUE, r2.df, <<Warning(Latin1Text)>>, a2)
              ELSE read(FALSE, NoTable,
                        <<Error(<<"Error reading CSV file: ", r.outcome>>),
                          Info(<<"Please check that your file contains valid data with proper column headers.">>)>>,
                        a2)
    ELSE LET r == read_excel(f)
             a1 == <<Attempt("excel", r)>>
         IN
         IF r.outcome = "ok" THEN read(TRUE, r.df, <<>>, a1)
         ELSE \* except Exception as e: try reading the first sheet explicitly
              LET r2 == read_excel(f)
                  a2 == Append(a1, Attempt("excel", r2))
              IN
              IF r2.outcome = "ok" THEN read(TRUE, r2.df, <<>>, a2)
              ELSE read(FALSE, NoTable,
                        <<Error(<<"Error reading Excel file: ", r.outcome>>),
                          Info(<<"Please ensure your Excel file has data and is not corrupted.">>)>>,
                        a2)

\* unnamed_cols = [col for col in df.columns if str(col).startswith('Unnamed')]
unnamed_cols(df) == SelectSeq(df.columns, StartsWithUnnamed)

\* What display_upload_status shows: the success line and the three counts.
display_upload_status(df, n) ==
    << Success(<<"File uploaded successfully">> \o n),
       Metric(<<"Rows", df.nrows>>),
       Metric(<<"Columns", Len(df.columns)>>),
       Metric(<<"Numeric Columns", NumericCount(df)>>) >>

\* render_data_upload from the second seek(0) on, for a file that passed
\* validation: the exit taken, the messages shown and the value returned.
RenderAfterValidation(n, f) ==
    LET rd == RenderRead(n, f)
        done(exit, shown, r) ==
            [exit |-> exit, msgs |-> shown, ret |-> r, attempts |-> rd.attempts]
    IN
    IF ~rd.ok THEN done("read_failed", rd.msgs, None)
    ELSE IF DfEmpty(rd.df)
    THEN done("no_data",
              Append(rd.msgs, Error(<<"The uploaded file contains no data.">>)), None)
    ELSE IF Len(rd.df.columns) = 0
    THEN done("no_columns",
              Append(rd.msgs, Error(<<"The uploaded file has no columns.">>)), None)
    ELSE LET unnamed ==
                 IF Len(unnamed_cols(rd.df)) = Len(rd.df.columns)
                 THEN <<Warning(AllUnnamedText),
                        Info(<<"The first row should contain column names.">>)>>
                 ELSE <<>>
         IN done("table",
                 rd.msgs \o unnamed \o display_upload_status(rd.df, n),
                 Returned(rd.df))

\* ------------------------------------------------------------- actions
\* Before any upload and before any catalog access.
Init ==
    /\ pc = "start"
    /\ caller = "none"
    /\ name = <<>>
    /\ file = EmptyFile
    /\ pos = 0
    /\ posBefore = 0
    /\ streamLog = <<>>
    /\ validation = FreshResult
    /\ vParser = "none"
    /\ raised = FALSE
    /\ attempts = <<>>
    /\ msgs = <<>>
    /\ ret = Pending
    /\ catalog = <<>>
    /\ loaded = FALSE
    /\ path = <<>>
    /\ value = <<>>
    /\ keyError = FALSE

\* render_data_upload when st.file_uploader holds no file.
RenderNoFile ==
    /\ pc = "start"
    /\ pc' = "done"
    /\ msgs' = <<Info(<<"Please upload a CSV or Excel file to begin">>)>>
    /\ ret' = None
    /\ UNCHANGED <<caller, name, file, pos, posBefore, streamLog, validation,
                   vParser, raised, attempts>>
    /\ UNCHANGED tariffVars

\* render_data_upload up to its call of validate_file_format: the widget
\* returns a file whose stream may stand anywhere; seek(0) rewinds it.
RenderUploaded ==
    /\ pc = "start"
    /\ \E n \in UploaderNames, f \in Files :
        /\ name' = n
        /\ file' = f
    /\ pos' = 0
    /\ caller' = "render"
    /\ pc' = "validate"
    /\ UNCHANGED <<posBefore, streamLog, validation, vParser, raised, attempts,
                   msgs, ret>>
    /\ UNCHANGED tariffVars

\* Another caller passes validate_file_format a file of any name whose
\* stream stands anywhere.
DirectCall ==
    /\ pc = "start"
    /\ \E n \in DirectNames, f \in Files :
        /\ name' = n
        /\ file' = f
        /\ pos' \in 0..f.size
    /\ caller' = "direct"
    /\ pc' = "validate"
    /\ UNCHANGED <<posBefore, streamLog, validation, vParser, raised, attempts,
                   msgs, ret>>
    /\ UNCHANGED tariffVars

\* One call of validate_file_format that leaves by the given exit.
Validate(exit) ==
    /\ pc = "validate"
    /\ \E stop \in Stops(file) :
        LET out == validate_file_format(name, file, pos, stop) IN
        /\ out.exit = exit
        /\ posBefore' = pos
        /\ pos' = out.pos
        /\ streamLog' = out.log
        /\ validation' = out.result
        /\ vParser' = out.parser
        /\ raised' = out.raised
        /\ pc' = IF out.raised THEN "done" ELSE "validated"
    /\ UNCHANGED <<caller, name, file, attempts, msgs, ret>>
    /\ UNCHANGED tariffVars

ValidateUnsupported ==
    /\ pc = "validate"
    /\ Validate("unsupported")

ValidateCsvEmpty ==
    /\ pc = "validate"
    /\ Validate("csv_empty")

ValidateCsvParserError ==
    /\ pc = "validate"
    /\ Validate("csv_parser")

ValidateExcelError ==
    /\ pc = "validate"
    /\ Validate("excel_error")

ValidateOtherException ==
    /\ pc = "validate"
    /\ Validate("outer")

ValidateChecked ==
    /\ pc = "validate"
    /\ Validate("checked")


\* render_data_upload when validation failed.
RenderValidationFailed ==
    /\ pc = "validated"
    /\ caller = "render"
    /\ ~validation.valid
    /\ msgs' = <<Error(<<"File validation failed:">>)>>
               \o [i \in 1..Len(validation.errors) |->
                      Error(<<"* ">> \o validation.errors[i])]
    /\ ret' = None
    /\ pc' = "done"
    /\ UNCHANGED <<caller, name, file, pos, posBefore, streamLog, validation,
                   vParser, raised, attempts>>
    /\ UNCHANGED tariffVars

\* render_data_upload after a successful validation, leaving by the given exit.
Render(exit) ==
    /\ pc = "validated"
    /\ caller = "render"
    /\ validation.valid
    /\ LET out == RenderAfterValidation(name, file) IN
        /\ out.exit = exit
        /\ msgs' = out.msgs
        /\ ret' = out.ret
        /\ attempts' = out.attempts
    /\ pos' \in Stops(file)
    /\ pc' = "done"
    /\ UNCHANGED <<caller, name, file, posBefore, streamLog, validation,
                   vParser, raised>>
    /\ UNCHANGED tariffVars

RenderReadFailed ==
    /\ pc = "validated"
    /\ Render("read_failed")

RenderNoData ==
    /\ pc = "validated"
    /\ Render("no_data")

RenderReturnTable ==
    /\ pc = "validated"
    /\ Render("table")


Next ==
    \/ RenderNoFile
    \/ RenderUploaded
    \/ DirectCall
    \/ ValidateUnsupported
    \/ ValidateCsvEmpty
    \/ ValidateCsvParserError
    \/ ValidateExcelError
    \/ ValidateOtherException
    \/ ValidateChecked
    \/ RenderValidationFailed
    \/ RenderReadFailed
    \/ RenderNoData
    \/ RenderReturnTable

Spec == Init /\ [][Next]_vars

\* ------------------------------------------------------ tariff catalog
\* Python's None.
NoneValue == "None"

\* Rates are held in ten-thousandths of a unit: 0.2703 is 2703, 20.00 is
\* 200000.
DomesticBlockTariff ==
    [Tariff |-> "Domestic Block Tariff",
     Rates |-> <<>>,
     Rules |-> [tiered |-> TRUE,
                charge_capacity_by |-> NoneValue,
                charge_network_by |-> NoneValue,
                has_peak_split |-> FALSE,
                afa_applicable |-> FALSE]]

\* Low Voltage General with the energy and capacity rates exchanged.
LowVoltageGeneralSwapped ==
    [Tariff |-> "Low Voltage General",
     Voltage |-> "Low Voltage",
     Type |-> "General",
     Rates |-> ("Energy Rate" :> 883 @@ "Capacity Rate" :> 2703
                @@ "Network Rate" :> 1482 @@ "Retail Rate" :> 200000),
     Rules |-> [charge_capacity_by |-> "kWh",
                charge_network_by |-> "kWh",
                has_peak_split |-> FALSE,
                afa_applicable |-> FALSE]]

LowVoltageGeneral ==
    [Tariff |-> "Low Voltage General",
     Voltage |-> "Low Voltage",
     Type |-> "General",
     Rates |-> ("Energy Rate" :> 2703 @@ "Capacity Rate" :> 883
                @@ "Network Rate" :> 1482 @@ "Retail Rate" :> 200000),
     Rules |-> [charge_capacity_by |-> "kWh",
                charge_network_by |-> "kWh",
                has_peak_split |-> FALSE,
                afa_applicable |-> FALSE]]

LowVoltageTOU ==
    [Tariff |-> "Low Voltage TOU",
     Voltage |-> "Low Voltage",
     Type |-> "TOU",
     Rates |-> ("Peak Rate" :> 2852 @@ "OffPeak Rate" :> 2443
                @@ "Capacity Rate" :> 883 @@ "Network Rate" :> 1482
                @@ "Retail Rate" :> 200000),
     Rules |-> [charge_capacity_by |-> "kWh",
                charge_network_by |-> "kWh",
                has_peak_split |-> TRUE,
                afa_applicable |-> FALSE]]

MediumVoltageGeneral ==
    [Tariff |-> "Medium Voltage General",
     Voltage |-> "Medium Voltage",
     Type |-> "General",
     Rates |-> ("Energy Rate" :> 2983 @@ "Capacity Rate" :> 294300
                @@ "Network Rate" :> 598400 @@ "Retail Rate" :> 2000000),
     Rules |-> [charge_capacity_by |-> "kW",
                charge_network_by |-> "kW",
                has_peak_split |-> FALSE,
                afa_applicable |-> TRUE]]

MediumVoltageTOU ==
    [Tariff |-> "Medium Voltage TOU",
     Voltage |-> "Medium Voltage",
     Type |-> "TOU",
     Rates |-> ("Peak Rate" :> 3132 @@ "OffPeak Rate" :> 2723
                @@ "Capacity Rate" :> 301900 @@ "Network Rate" :> 668700
                @@ "Retail Rate" :> 2000000),
     Rules |-> [charge_capacity_by |-> "kW (peak only)",
                charge_network_by |-> "kW (peak only)",
                has_peak_split |-> TRUE,
                afa_applicable |-> TRUE]]

HighVoltageGeneral ==
    [Tariff |-> "High Voltage General",
     Voltage |-> "High Voltage",
     Type |-> "General",
     Rates |-> ("Energy Rate" :> 4303 @@ "Capacity Rate" :> 166800
                @@ "Network Rate" :> 145300 @@ "Retail Rate" :> 2500000),
     Rules |-> [charge_capacity_by |-> "kW",
                charge_network_by |-> "kW",
                has_peak_split |-> FALSE,
                afa_applicable |-> TRUE]]

HighVoltageTOU ==
    [Tariff |-> "High Voltage TOU",
     Voltage |-> "High Voltage",
     Type |-> "TOU",
     Rates |-> ("Peak Rate" :> 4452 @@ "OffPeak Rate" :> 4043
                @@ "Capacity Rate" :> 217600 @@ "Network Rate" :> 230600
                @@ "Retail Rate" :> 2500000),
     Rules |-> [charge_capacity_by |-> "kW (peak only)",
                charge_network_by |-> "kW (peak only)",
                has_peak_split |-> TRUE,
                afa_applicable |-> TRUE]]

\* A tariff group: { "Tariffs": [...] }
Group(plans) == [Tariffs |-> plans]

TARIFF_DATA ==
    "Residential" :>
        ("Tariff Groups" :> ("Domestic" :> Group(<<DomesticBlockTariff>>)))
    @@ "Business" :>
        ("Tariff Groups" :>
            ("Non Domestic" :>
                Group(<<LowVoltageGeneral, LowVoltageTOU, MediumVoltageGeneral,
                        MediumVoltageTOU, HighVoltageGeneral, HighVoltageTOU>>)
             @@ "Specific Agriculture" :> Group(<<>>)
             @@ "Water & Sewerage Operator" :> Group(<<>>)
             @@ "Street Lighting" :> Group(<<>>)
             @@ "Co-Generation" :> Group(<<>>)
             @@ "Traction" :> Group(<<>>)
             @@ "Bulk" :> Group(<<>>)
             @@ "Thermal Energy Storage (TES)" :> Group(<<>>)
             @@ "Backfeed" :> Group(<<>>)))

\* def get_tariff_data(): return TARIFF_DATA
get_tariff_data == TARIFF_DATA

\* The keys a client subscripts the catalog with: those of the catalog and
\* one, "Industrial", that it does not hold.
Keys ==
    {"Residential", "Business", "Industrial", "Tariff Groups", "Tariffs",
     "Domestic", "Non Domestic", "Specific Agriculture",
     "Water & Sewerage Operator", "Street Lighting", "Co-Generation",
     "Traction", "Bulk", "Thermal Energy Storage (TES)", "Backfeed",
     "Tariff", "Voltage", "Type", "Rates", "Rules",
     "Energy Rate", "Peak Rate", "OffPeak Rate", "Capacity Rate",
     "Network Rate", "Retail Rate",
     "tiered", "charge_capacity_by", "charge_network_by", "has_peak_split",
     "afa_applicable"}

\* The value reached along p is a dict: the catalog, a customer class, its
\* groups, a group, a plan, or a plan's Rates or Rules.
IsDict(p) ==
    \/ Len(p) \in {0, 1, 2, 3, 5}
    \/ Len(p) = 6 /\ p[6] \in {"Rates", "Rules"}

\* The value reached along p is a list: a group's "Tariffs".
IsList(p) == Len(p) = 4

\* The client calls get_tariff_data().
GetTariffData ==
    /\ ~loaded
    /\ loaded' = TRUE
    /\ catalog' = get_tariff_data
    /\ value' = get_tariff_data
    /\ path' = <<>>
    /\ keyError' = FALSE
    /\ UNCHANGED uploadVars

\* value[k] for a key the dict holds.
Subscript ==
    /\ loaded
    /\ ~keyError
    /\ IsDict(path)
    /\ \E k \in Keys :
        /\ k \in DOMAIN value
        /\ value' = value[k]
        /\ path' = Append(path, k)
    /\ UNCHANGED <<catalog, loaded, keyError>>
    /\ UNCHANGED uploadVars

\* value[k] for a key the dict does not hold: KeyError.
SubscriptMissing ==
    /\ loaded
    /\ ~keyError
    /\ IsDict(path)
    /\ \E k \in Keys :
        /\ k \notin DOMAIN value
        /\ path' = Append(path, k)
    /\ keyError' = TRUE
    /\ UNCHANGED <<catalog, loaded, value>>
    /\ UNCHANGED uploadVars

\* value[i] for an index within the list (0-based in Python).
Index ==
    /\ loaded
    /\ ~keyError
    /\ IsList(path)
    /\ \E i \in 0..(Len(value) - 1) :
        /\ value' = value[i + 1]
        /\ path' = Append(path, i)
    /\ UNCHANGED <<catalog, loaded, keyError>>
    /\ UNCHANGED uploadVars

\* value[len(value)]: IndexError.
IndexPastEnd ==
    /\ loaded
    /\ ~keyError
    /\ IsList(path)
    /\ path' = Append(path, Len(value))
    /\ keyError' = TRUE
    /\ UNCHANGED <<catalog, loaded, value>>
    /\ UNCHANGED uploadVars

NextTariff ==
    \/ GetTariffData
    \/ Subscript
    \/ SubscriptMissing
    \/ Index
    \/ IndexPastEnd

SpecTariff == Init /\ [][NextTariff]_vars

\* ------------------------------------------------------------ claims
\* The extensions the specification names as supported.
ClaimedExtensions == {DotCsv, DotXlsx, DotXls}

\* validate_file_format has been called and has ended.
ValidateEnded == pc \in {"validated", "done"} /\ caller \in {"render", "direct"}

\* render_data_upload has returned for an uploaded file.
RenderDone == pc = "done" /\ caller = "render" /\ ~raised

\* What the parser that validate_file_format used made of the file.
ValidatedOutcome == IF vParser = "csv" THEN file.csv ELSE file.excel
ValidatedTable == IF vParser = "csv" THEN file.table ELSE file.sheet

HasError == \E i \in 1..Len(msgs) : msgs[i].level = "error"
Shows(m) == \E i \in 1..Len(msgs) : msgs[i] = m
AllUnnamed(df) == \A i \in 1..Len(df.columns) : StartsWithUnnamed(df.columns[i])

\* C1: whenever validate_file_format has started a parse attempt (the
\* extension is supported), the stream is back at position 0 when it ends,
\* on every exit path.
C1_PositionResetOnEveryExit ==
    (ValidateEnded /\ file_extension(name) \in ClaimedExtensions) => pos = 0

\* C2: a CSV whose default-encoding parse fails with a decoding error and
\* whose latin-1 parse yields at least one row and one numeric column ends
\* the upload flow in degraded success: the latin-1 warning, no error, and
\* the parsed table returned.
C2_Latin1FallbackDegradesSuccessfully ==
    ( /\ RenderDone
      /\ file_extension(name) = DotCsv
      /\ file.csv = "UnicodeDecodeError"
      /\ file.latin1 = "ok"
      /\ file.table.nrows >= 1
      /\ NumericCount(file.table) >= 1 )
    => /\ Shows(Warning(Latin1Text))
       /\ ~HasError
       /\ ret = Returned(file.table)

\* C3: for a file name whose extension, compared without regard to case, is
\* not csv, xlsx or xls, validate_file_format returns valid = false with
\* exactly the one "Unsupported file format" error, attempts no parse, and
\* neither reads nor repositions the stream.
C3_UnsupportedFailsAlone ==
    (ValidateEnded /\ file_extension(name) \notin ClaimedExtensions)
    => /\ ~raised
       /\ ~validation.valid
       /\ validation.errors =
            << <<"Unsupported file format: ">> \o file_extension(name) >>
       /\ vParser = "none"
       /\ streamLog = <<>>
       /\ pos = posBefore

\* C3 witness: a .txt file whose stream stood past its start has been
\* rejected and the stream still stands there.
C3_Witness ==
    /\ ValidateEnded
    /\ name = <<"a", ".", "t", "x", "t">>
    /\ ~validation.valid
    /\ posBefore = 1
    /\ pos = 1

\* The messages of the three structure checks whose conditions hold for df,
\* in their order.
ExpectedStructureErrors(df) ==
    LET all == << [holds |-> df.nrows = 0, msg |-> <<"File is empty">>],
                  [holds |-> Len(df.columns) = 0, msg |-> <<"File has no columns">>],
                  [holds |-> NumericCount(df) = 0,
                   msg |-> <<"File must have at least 1 numeric column for analysis">>] >>
        sel == SelectSeq(all, LAMBDA x : x.holds)
    IN [i \in 1..Len(sel) |-> sel[i].msg]

\* C4: when the parse in validate_file_format succeeds, the error list is
\* exactly the ordered sub-list of the three structure errors whose
\* conditions hold, and valid is true, with no errors, exactly when none holds.
C4_StructureErrorsAccumulate ==
    (ValidateEnded /\ vParser # "none" /\ ValidatedOutcome = "ok")
    => /\ ~raised
       /\ validation.errors = ExpectedStructureErrors(ValidatedTable)
       /\ validation.valid <=> validation.errors = <<>>
       /\ validation.valid <=>
            /\ ValidatedTable.nrows # 0
            /\ Len(ValidatedTable.columns) # 0
            /\ NumericCount(ValidatedTable) # 0

\* C4 witness: an empty sheet has been validated and all three errors are
\* reported.
C4_Witness ==
    /\ ValidateEnded
    /\ vParser = "excel"
    /\ ValidatedOutcome = "ok"
    /\ Len(validation.errors) = 3

\* C5: for a supported extension and every way the parse can fail,
\* validate_file_format returns valid = false with a non-empty error list,
\* and no exception leaves it.
C5_ParseFailuresAreReturned ==
    ( /\ ValidateEnded
      /\ file_extension(name) \in ClaimedExtensions
      /\ (IF file_extension(name) = DotCsv THEN file.csv ELSE file.excel) # "ok" )
    => /\ ~raised
       /\ ~validation.valid
       /\ Len(validation.errors) >= 1

\* C5 witness: a CSV whose parse raised a decoding error has been validated
\* and the failure is in the result.
C5_Witness ==
    /\ ValidateEnded
    /\ file_extension(name) = DotCsv
    /\ file.csv = "UnicodeDecodeError"
    /\ ~raised
    /\ validation = [valid |-> FALSE,
                     errors |-> << <<"Error reading file: ", "UnicodeDecodeError">> >>]

\* The last parse attempt of render_data_upload failed.
LastAttemptFailed ==
    attempts # <<>> /\ attempts[Len(attempts)].outcome # "ok"

\* The table render_data_upload parsed is empty or has no columns.
ParsedTableEmpty ==
    /\ attempts # <<>>
    /\ attempts[Len(attempts)].outcome = "ok"
    /\ LET df == IF attempts[Len(attempts)].parser = "csv"
                 THEN file.table ELSE file.sheet
       IN df.nrows = 0 \/ Len(df.columns) = 0

\* C6: render_data_upload never returns a table on failure: when validation
\* fails, or its parse fails without a successful fallback, or the parsed
\* table is empty or has no columns, it shows an error and returns None; a
\* table is returned only if validation passed and no error was shown.
C6_NoTableOnFailure ==
    RenderDone
    => /\ ret.kind \in {"None", "df"}
       /\ (~validation.valid \/ LastAttemptFailed \/ ParsedTableEmpty)
            => (HasError /\ ret = None)
       /\ ret.kind = "df" => (validation.valid /\ ~HasError)

\* C6 witness: a validated file whose sheet render_data_upload read without
\* data rows has been refused.
C6_Witness ==
    /\ RenderDone
    /\ validation.valid
    /\ ParsedTableEmpty
    /\ ret = None

\* C9: an uploaded CSV with at least one row and one numeric column whose
\* column names all start with 'Unnamed' passes validation, and
\* render_data_upload shows the all-columns-unnamed warning, no error, and
\* returns the parsed table; the warning is shown only when all columns are
\* unnamed.
C9_AllUnnamedWarnsAndReturns ==
    /\ ( /\ RenderDone
         /\ file_extension(name) = DotCsv
         /\ file.csv = "ok"
         /\ file.table.nrows >= 1
         /\ NumericCount(file.table) >= 1
         /\ AllUnnamed(file.table) )
       => /\ validation.valid
          /\ Shows(Warning(AllUnnamedText))
          /\ ~HasError
          /\ ret = Returned(file.table)
    /\ (RenderDone /\ Shows(Warning(AllUnnamedText)))
       => (ret.kind = "df" /\ AllUnnamed(ret.df))

\* C10: for every file name validate_file_format accepts, render_data_upload
\* reads the file with the parser that validation used.
C10_SameParserAsValidation ==
    (RenderDone /\ validation.valid)
    => \A i \in 1..Len(attempts) : attempts[i].parser = vParser

\* The list data[c]["Tariff Groups"][g]["Tariffs"] has been looked up.
LookedUp(c, g) == loaded /\ path = <<c, "Tariff Groups", g, "Tariffs">>

\* C7: (Business, Non Domestic) yields exactly 6 plans, among them 'Low
\* Voltage General' with Energy Rate 0.2703 and Capacity Rate 0.0883;
\* (Business, Street Lighting) yields an empty list, not a missing key;
\* (Residential, Domestic) yields the one plan 'Domestic Block Tariff' with
\* empty Rates and Rules.tiered true.
C7_CatalogLookups ==
    /\ LookedUp("Business", "Non Domestic")
       => /\ ~keyError
          /\ Len(value) = 6
          /\ \E i \in 1..Len(value) :
                /\ value[i].Tariff = "Low Voltage General"
                /\ value[i].Rates["Energy Rate"] = 2703
                /\ value[i].Rates["Capacity Rate"] = 883
    /\ LookedUp("Business", "Street Lighting")
       => (~keyError /\ Len(value) = 0)
    /\ LookedUp("Residential", "Domestic")
       => /\ ~keyError
          /\ Len(value) = 1
          /\ value[1].Tariff = "Domestic Block Tariff"
          /\ DOMAIN value[1].Rates = {}
          /\ value[1].Rules.tiered = TRUE

\* C7 witness: the Non Domestic plans have been looked up and are six.
C7_Witness ==
    /\ LookedUp("Business", "Non Domestic")
    /\ ~keyError
    /\ Len(value) = 6

\* The bases a capacity or network charge may have.
ChargeBases == {"kWh", "kW", "kW (peak only)", NoneValue}

\* C8: every plan of every tariff group has a Rules record that defines all
\* of tiered, charge_capacity_by, charge_network_by, has_peak_split and
\* afa_applicable, the flags boolean and each charge basis one of kWh, kW,
\* 'kW (peak only)' or none.
C8_RulesComplete ==
    \A c \in DOMAIN catalog :
      \A g \in DOMAIN catalog[c]["Tariff Groups"] :
        LET plans == catalog[c]["Tariff Groups"][g]["Tariffs"] IN
        \A i \in 1..Len(plans) :
          LET rules == plans[i].Rules IN
          /\ {"tiered", "charge_capacity_by", "charge_network_by",
              "has_peak_split", "afa_applicable"} \subseteq DOMAIN rules
          /\ rules.tiered \in BOOLEAN
          /\ rules.has_peak_split \in BOOLEAN
          /\ rules.afa_applicable \in BOOLEAN
          /\ rules.charge_capacity_by \in ChargeBases
          /\ rules.charge_network_by \in ChargeBases

====
